---- MODULE Spec2Model ----
(***************************************************************************)
(* A model of the Teeworlds map container codec of tml.py: the in-memory   *)
(* Teemap (groups owning layers, images, envelopes, envpoints, header),    *)
(* Teemap.save (type directory, item list, offset tables, Header.write),   *)
(* Teemap.load (Header.__init__, directory and offset reading, size        *)
(* derivation, item decoding, graph assembly) and int32.                   *)
(*                                                                         *)
(* A file is a sequence of 32-bit words; byte counts are 4 * word counts.  *)
(* A compressed block is a sequence of words whose first word is its own   *)
(* length, so that a block cut short no longer decompresses.               *)
(***************************************************************************)
EXTENDS Integers, Sequences, FiniteSets, TLC

VARIABLES groups, images, envelopes, envpoints, header, item_types,
          file, pc, input, x, r

vars == <<groups, images, envelopes, envpoints, header, item_types,
          file, pc, input, x, r>>

(***************************************************************************)
(* Bounds of the model.                                                    *)
(***************************************************************************)
\* the most objects (groups + layers + images + envelopes + envpoints) a map holds
MaxItems == 5
\* how far around 0, 2^31 and 2^32 the inputs of int32 are drawn
Around == 10

(***************************************************************************)
(* Program constants.                                                      *)
(***************************************************************************)
\* 'DATA' and 'ATAD' read as one little-endian word
SigDATA == 1096040772
SigATAD == 1145132097
FormatVersion == 4
HeaderBytes == 36
TypeEntryBytes == 12

\* constants.py
ITEM_TYPES == <<"version", "info", "image", "envelope", "group", "layer", "envpoint">>
LAYER_TYPES == <<"invalid", "game", "tile", "quad">>

\* items.<Class>.size, in bytes, the id word and the size word included
VersionSize == 12
ImageSize == 32
EnvelopeSize == 56
GroupSize == 56
TileLayerSize == 60
QuadLayerSize == 36

(***************************************************************************)
(* Sequence helpers.                                                       *)
(***************************************************************************)
RECURSIVE Flatten(_)
Flatten(ss) == IF ss = <<>> THEN <<>> ELSE Head(ss) \o Flatten(Tail(ss))

RECURSIVE SumLen(_)
SumLen(ss) == IF ss = <<>> THEN 0 ELSE Len(Head(ss)) + SumLen(Tail(ss))


Min(a, b) == IF a < b THEN a ELSE b
Max(a, b) == IF a > b THEN a ELSE b

\* Python's s[start:end] on a list, negative indices counted from the end
PySlice(s, start, end) ==
    LET n  == Len(s)
        lo == IF start < 0 THEN Max(start + n, 0) ELSE Min(start, n)
        hi == IF end < 0 THEN Max(end + n, 0) ELSE Min(end, n)
    IN  IF hi <= lo THEN <<>> ELSE SubSeq(s, lo + 1, hi)

\* f.seek(pos); f.read(nbytes) on a stream of words: what is there, no more;
\* a negative count reads to the end of the stream
FRead(s, pos, nbytes) ==
    LET n  == Len(s)
        hi == IF nbytes < 0 THEN n ELSE Min(pos + (nbytes \div 4), n)
    IN  IF pos >= n \/ hi <= pos THEN <<>> ELSE SubSeq(s, pos + 1, hi)

(***************************************************************************)
(* Python integers are unbounded and TLC's are 32-bit, so an integer on    *)
(* its way to the file is held as [hi, lo], standing for hi * 2^16 + lo    *)
(* with 0 <= lo < 2^16.                                                    *)
(***************************************************************************)
WNorm(hi, lo) == [hi |-> hi + (lo \div 65536), lo |-> lo % 65536]
FromInt(v) == WNorm(0, v)
WAdd(a, b) == WNorm(a.hi + b.hi, a.lo + b.lo)
WSub(a, b) == WNorm(a.hi - b.hi, a.lo - b.lo)
WNeg(a) == WNorm(-a.hi, -a.lo)
WLt(a, b) == a.hi < b.hi \/ (a.hi = b.hi /\ a.lo < b.lo)
WGt(a, b) == WLt(b, a)
WideSeq(vs) == [i \in 1..Len(vs) |-> FromInt(vs[i])]

x7FFFFFFF == [hi |-> 32767, lo |-> 65535]
x80000000 == [hi |-> 32768, lo |-> 0]
xFFFFFFFF == [hi |-> 65535, lo |-> 65535]
x100000000 == [hi |-> 65536, lo |-> 0]

(***************************************************************************)
(* int32 (lines 21-30): the value returned, or the exception raised.       *)
(***************************************************************************)
Returns(v) == [raises |-> "", value |-> v]
Raises(e) == [raises |-> e, value |-> FromInt(0)]

int32OffByOne(v) ==
    IF WGt(v, xFFFFFFFF) THEN Raises("OverflowError")
    ELSE IF WGt(v, x7FFFFFFF)
         THEN LET y == WSub(xFFFFFFFF, v)
              IN  IF WLt(y, x80000000) THEN Returns(WNeg(y))
                  ELSE Returns(WNeg(x80000000))
         ELSE Returns(v)

int32(v) ==
    IF WGt(v, xFFFFFFFF) THEN Raises("OverflowError")
    ELSE IF WGt(v, x7FFFFFFF)
         THEN LET y == WSub(x100000000, v)
              IN  IF WLt(y, x80000000) THEN Returns(WNeg(y))
                  ELSE Returns(WNeg(x80000000))
         ELSE Returns(v)

\* struct.pack('i', v): the 32-bit word, when v is in the signed range
CanPack(v) == -32768 <= v.hi /\ v.hi <= 32767
Pack(v) == v.hi * 65536 + v.lo

\* zlib compress / decompress of a block of words
Compress(d) == <<Len(d) + 1>> \o d
CanDecompress(b) == Len(b) > 0 /\ b[1] = Len(b)

(***************************************************************************)
(* The objects of a map.                                                   *)
(*   layer    [type, game, data]   type indexes LAYER_TYPES (2 tile, 3     *)
(*                                 quad); data is its tile or quad block   *)
(*   group    [start_layer, num_layers, layers]  the range is the one its *)
(*                                 item held when it was loaded            *)
(*   image    [external, data]     data is the pixel block when embedded   *)
(*   envelope [start, num]         a range of the global envpoints         *)
(*   envpoint [time, curvetype, values]  values has four entries; its     *)
(*                                 integers are held as [hi, lo]           *)
(***************************************************************************)
QuadLayer == [type |-> 3, game |-> 0, data |-> <<7, 7>>]
TileLayer(game) == [type |-> 2, game |-> game, data |-> <<5 + game>>]
Group == [start_layer |-> 0, num_layers |-> 0, layers |-> <<>>]
Image(external) == [external |-> external, data |-> IF external = 1 THEN <<>> ELSE <<3>>]
Envelope(start, num) == [start |-> start, num |-> num]
Envpoint(info) ==
    [time |-> info[1], curvetype |-> info[2], values |-> SubSeq(info, 3, 6)]

\* the flat layers view (lines 133-139)
RECURSIVE layers(_)
layers(grps) ==
    IF grps = <<>> THEN <<>> ELSE Head(grps).layers \o layers(Tail(grps))

IsTile(layer) == LAYER_TYPES[layer.type + 1] = "tile"

\* Header(teemap) with no file (lines 39-42, 61)
NewHeader == [version |-> FormatVersion, size |-> HeaderBytes]

\* the index of a type name in ITEM_TYPES, counted from 0
TypeIndex(name) == (CHOOSE k \in 1..Len(ITEM_TYPES) : ITEM_TYPES[k] = name) - 1

\* (i << 16) | id_ for an id below 2^16
PackId(i, id) == i * 65536 + id

(***************************************************************************)
(* items.py: what each object contributes to the item list (its size word  *)
(* and its fields) and to the raw data, and the name of an envelope.       *)
(***************************************************************************)
ImageGetData(image) == IF image.external = 1 THEN <<>> ELSE <<image.data>>
ImageItemdata(image, n) ==
    <<ImageSize - 8, 1, 0, 0, image.external, -1,
      IF image.external = 1 THEN -1 ELSE n>>
EnvelopeItemdata(envelope) == <<EnvelopeSize - 8, 1, 4, envelope.start, envelope.num>>
\* string_to_ints of the empty name: seven words 0x80808080 and 0x80808000
EnvelopeName ==
    [i \in 1..8 |-> IF i < 8 THEN [hi |-> 32896, lo |-> 32896]
                    ELSE [hi |-> 32896, lo |-> 32768]]
GroupItemdata(group) ==
    <<GroupSize - 8, 2, 0, 0, 100, 100, group.start_layer, Len(group.layers),
      0, 0, 0, 0, 0>>
LayerItemdata(layer, n) ==
    IF IsTile(layer)
    THEN <<TileLayerSize - 8, 0, layer.type, 0, 2, Len(layer.data), 1, layer.game,
           255, 255, 255, 255, -1, n>>
    ELSE <<QuadLayerSize - 8, 0, layer.type, 0, 1, Len(layer.data) \div 2, n, -1>>

(***************************************************************************)
(* Teemap.save.                                                            *)
(***************************************************************************)
Collection(name, grps, imgs, envs) ==
    CASE name = "image"    -> imgs
      [] name = "envelope" -> envs
      [] name = "group"    -> grps
      [] name = "layer"    -> layers(grps)

TypeEntryStartsAtOne(i, count, num) == [type |-> i, start |-> count + 1, num |-> num]

\* lines 261-265 and 271-275: one triple of the directory
TypeEntry(i, count, num) == [type |-> i, start |-> count, num |-> num]

\* lines 254-276: the type directory, one triple per populated kind
RECURSIVE TypesData(_, _, _, _, _, _)
TypesData(k, count, acc, grps, imgs, envs) ==
    IF k > Len(ITEM_TYPES) THEN acc
    ELSE LET item_type == ITEM_TYPES[k]
         IN  IF item_type = "info"
             THEN TypesData(k + 1, count, acc, grps, imgs, envs)
             ELSE IF item_type \in {"version", "envpoint"}
             THEN TypesData(k + 1, count + 1,
                            Append(acc, TypeEntry(k - 1, count, 1)),
                            grps, imgs, envs)
             ELSE LET typelist == Collection(item_type, grps, imgs, envs)
                  IN  IF typelist # <<>>
                      THEN TypesData(k + 1, count + Len(typelist),
                                     Append(acc, TypeEntry(k - 1, count, Len(typelist))),
                                     grps, imgs, envs)
                      ELSE TypesData(k + 1, count, acc, grps, imgs, envs)

\* lines 314-319: every group's start_layer becomes the number of layers
\* of the groups before it
RECURSIVE StartLayersOff(_, _)
StartLayersOff(grps, num_layers) ==
    IF grps = <<>> THEN <<>>
    ELSE <<[Head(grps) EXCEPT !.start_layer = num_layers + Len(Head(grps).layers)]>>
         \o StartLayersOff(Tail(grps), num_layers + Len(Head(grps).layers))

RECURSIVE StartLayers(_, _)
StartLayers(grps, num_layers) ==
    IF grps = <<>> THEN <<>>
    ELSE <<[Head(grps) EXCEPT !.start_layer = num_layers]>>
         \o StartLayers(Tail(grps), num_layers + Len(Head(grps).layers))

\* lines 289-297: the one envpoint item
RECURSIVE EnvpointRecords(_)
EnvpointRecords(pts) ==
    IF pts = <<>> THEN <<>>
    ELSE <<Head(pts).time, Head(pts).curvetype>> \o Head(pts).values
         \o EnvpointRecords(Tail(pts))

EnvpointItem(i, pts) ==
    WideSeq(<<i * 65536, Len(pts) * 6 * 4>>) \o EnvpointRecords(pts)

\* lines 298-333: the items of one kind, id_ counted from 0; acc holds
\* itemdata, item_types and datas as built so far
RECURSIVE ItemsOf(_, _, _, _, _)
ItemsOf(item_type, i, objs, id_, acc) ==
    IF objs = <<>> THEN acc
    ELSE LET o == Head(objs)
             n == Len(acc.datas)
             next ==
               CASE item_type = "image" ->
                      [itemdata   |-> acc.itemdata
                                      \o WideSeq(<<PackId(i, id_)>> \o ImageItemdata(o, n)),
                       item_types |-> Append(acc.item_types, "image"),
                       datas      |-> acc.datas \o ImageGetData(o)]
                 [] item_type = "envelope" ->
                      [itemdata   |-> acc.itemdata
                                      \o WideSeq(<<PackId(i, id_)>> \o EnvelopeItemdata(o))
                                      \o EnvelopeName,
                       item_types |-> Append(acc.item_types, "envelope"),
                       datas      |-> acc.datas]
                 [] item_type = "group" ->
                      [itemdata   |-> acc.itemdata
                                      \o WideSeq(<<PackId(i, id_)>> \o GroupItemdata(o)),
                       item_types |-> Append(acc.item_types, "group"),
                       datas      |-> acc.datas]
                 [] item_type = "layer" ->
                      [itemdata   |-> acc.itemdata
                                      \o WideSeq(<<PackId(i, id_)>> \o LayerItemdata(o, n)),
                       item_types |-> Append(acc.item_types,
                                             IF IsTile(o) THEN "tile_layer" ELSE "quad_layer"),
                       datas      |-> Append(acc.datas, o.data)]
         IN  ItemsOf(item_type, i, Tail(objs), id_ + 1, next)

\* lines 278-333: the loop over ITEM_TYPES; grps already carry the new
\* start_layer values when the group branch reads them
RECURSIVE SaveItems(_, _, _, _, _, _)
SaveItems(k, acc, grps, imgs, envs, pts) ==
    IF k > Len(ITEM_TYPES) THEN acc
    ELSE LET item_type == ITEM_TYPES[k]
             i == k - 1
             next ==
               CASE item_type = "version" ->
                      [acc EXCEPT !.itemdata = @ \o WideSeq(<<i, 4, 1>>),
                                  !.item_types = Append(@, "version")]
                 [] item_type = "envpoint" ->
                      [acc EXCEPT !.itemdata = @ \o EnvpointItem(i, pts),
                                  !.item_types = Append(@, "envpoint")]
                 [] item_type \in {"image", "envelope", "group", "layer"} ->
                      ItemsOf(item_type, i, Collection(item_type, grps, imgs, envs), 0, acc)
                 [] OTHER -> acc
         IN  SaveItems(k + 1, next, grps, imgs, envs, pts)

\* size of an item by the name save records for it (lines 350-357)
SizeOf(type_) ==
    CASE type_ = "tile_layer" -> TileLayerSize
      [] type_ = "quad_layer" -> QuadLayerSize
      [] type_ = "version"    -> VersionSize
      [] type_ = "image"      -> ImageSize
      [] type_ = "envelope"   -> EnvelopeSize
      [] type_ = "group"      -> GroupSize

\* lines 345-359: the offset of every item; the envpoint item does not
\* advance the running offset
RECURSIVE ItemOffsets(_, _)
ItemOffsets(types, item_cur_offset) ==
    IF types = <<>> THEN <<>>
    ELSE <<item_cur_offset>>
         \o ItemOffsets(Tail(types),
                        IF Head(types) = "envpoint" THEN item_cur_offset
                        ELSE item_cur_offset + SizeOf(Head(types)))

\* lines 361-365: the offset of every compressed block
RECURSIVE DataOffsets(_, _)
DataOffsets(blocks, data_cur_offset) ==
    IF blocks = <<>> THEN <<>>
    ELSE <<data_cur_offset>>
         \o DataOffsets(Tail(blocks), data_cur_offset + 4 * Len(Head(blocks)))

RECURSIVE LayersSize(_)
LayersSize(ls) ==
    IF ls = <<>> THEN 0
    ELSE (IF IsTile(Head(ls)) THEN TileLayerSize ELSE QuadLayerSize) + LayersSize(Tail(ls))

NumItemTypesAllKinds(grps, imgs, envs) == Len(ITEM_TYPES) - 1

\* lines 98-104: version and envpoint, and every populated kind
NumItemTypes(grps, imgs, envs) ==
    2 + Cardinality({k \in 3..Len(ITEM_TYPES) :
                       /\ ITEM_TYPES[k] # "envpoint"
                       /\ Collection(ITEM_TYPES[k], grps, imgs, envs) # <<>>})

EnvpointsSizeShort(pts) == Len(pts) * 24

\* line 92
EnvpointsSize(pts) == Len(pts) * 24 + 8

\* Header.write (lines 63-115): the eight fields after the signature
HeaderWrite(grps, imgs, envs, pts, compressed_data) ==
    LET data_size      == 4 * SumLen(compressed_data)
        layers_size    == LayersSize(layers(grps))
        version_size   == 4 + 8
        envelopes_size == Len(envs) * EnvelopeSize
        groups_size    == Len(grps) * GroupSize
        envpoints_size == EnvpointsSize(pts)
        images_size    == Len(imgs) * ImageSize
        item_size      == version_size + groups_size + layers_size + envelopes_size
                          + images_size + envpoints_size
        num_items      == Len(envs \o grps \o layers(grps) \o imgs) + 2
        num_item_types == NumItemTypes(grps, imgs, envs)
        num_raw_data   == Len(compressed_data)
        header_size    == HeaderBytes
        type_size      == num_item_types * TypeEntryBytes
        offset_size    == (num_items + 2 * num_raw_data) * 4
        size           == header_size + type_size + offset_size + item_size + data_size - 16
        swaplen        == size - data_size
    IN  <<FormatVersion, size, swaplen, num_item_types, num_items, num_raw_data,
          item_size, data_size>>

RECURSIVE TypeWords(_)
TypeWords(ts) ==
    IF ts = <<>> THEN <<>>
    ELSE <<Head(ts).type, Head(ts).start, Head(ts).num>> \o TypeWords(Tail(ts))

\* lines 371-373: the words written, up to the first one int32 or pack refuses
Packed(ws) ==
    LET refused == {i \in 1..Len(ws) :
                      int32(ws[i]).raises # "" \/ ~CanPack(int32(ws[i]).value)}
        n == IF refused = {} THEN Len(ws)
             ELSE (CHOOSE i \in refused : \A j \in refused : i <= j) - 1
    IN  [i \in 1..n |-> Pack(int32(ws[i]).value)]

\* lines 335-377: what save writes, section by section, in file order
WriteFile(hdr, item_types_data, names, datas, compressed_data, itemdata, items) ==
    [hdr          |-> <<SigDATA>> \o hdr,
     types        |-> item_types_data,
     item_offsets |-> ItemOffsets(names, 0),
     data_offsets |-> DataOffsets(compressed_data, 0),
     data_sizes   |-> [d \in 1..Len(datas) |-> 4 * Len(datas[d])],
     items        |-> items,
     blocks       |-> IF Len(items) = Len(itemdata) THEN compressed_data ELSE <<>>,
     complete     |-> Len(items) = Len(itemdata)]

CompressAll(datas) == [d \in 1..Len(datas) |-> Compress(datas[d])]

SaveBuilt(new_groups, imgs, envs, pts, item_types_data, built, compressed_data) ==
    WriteFile(HeaderWrite(new_groups, imgs, envs, pts, compressed_data),
              item_types_data, built.item_types, built.datas, compressed_data,
              built.itemdata, Packed(built.itemdata))

SaveGroups(new_groups, imgs, envs, pts, item_types_data, built) ==
    SaveBuilt(new_groups, imgs, envs, pts, item_types_data, built,
              CompressAll(built.datas))

\* the file save writes for a map (lines 254-377)
SavedFile(grps, imgs, envs, pts) ==
    SaveGroups(StartLayers(grps, 0), imgs, envs, pts,
               TypesData(1, 0, <<>>, grps, imgs, envs),
               SaveItems(1, [itemdata |-> <<>>, item_types |-> <<>>, datas |-> <<>>],
                         StartLayers(grps, 0), imgs, envs, pts))

NoFile == [hdr |-> <<>>, types |-> <<>>, item_offsets |-> <<>>, data_offsets |-> <<>>,
           data_sizes |-> <<>>, items |-> <<>>, blocks |-> <<>>, complete |-> FALSE]

\* the bytes of a file, as words
Stream(f) ==
    f.hdr \o TypeWords(f.types) \o f.item_offsets \o f.data_offsets \o f.data_sizes
    \o f.items \o Flatten(f.blocks)

(***************************************************************************)
(* Teemap.load.  Every step yields [ok |-> FALSE] when it raises.          *)
(***************************************************************************)
HeaderInitNoRaw(s) ==
    LET w == FRead(s, 1, 32)
    IN  IF Len(FRead(s, 0, 4)) < 1 THEN [ok |-> FALSE]
        ELSE IF s[1] \notin {SigDATA, SigATAD} THEN [ok |-> FALSE]
        ELSE IF Len(w) < 8 THEN [ok |-> FALSE]
        ELSE IF w[1] # FormatVersion THEN [ok |-> FALSE]
        ELSE [ok |-> TRUE, version |-> w[1], size_ |-> w[2], swaplen |-> w[3],
              num_item_types |-> w[4], num_items |-> w[5], num_raw_data |-> w[6],
              item_size |-> w[7], data_size |-> w[8],
              size |-> w[4] * 12 + (w[5] + w[6]) * 4 + w[7] + 36]

\* Header.__init__ on a file (lines 43-61)
HeaderInit(s) ==
    LET w == FRead(s, 1, 32)
    IN  IF Len(FRead(s, 0, 4)) < 1 THEN [ok |-> FALSE]
        ELSE IF s[1] \notin {SigDATA, SigATAD} THEN [ok |-> FALSE]
        ELSE IF Len(w) < 8 THEN [ok |-> FALSE]
        ELSE IF w[1] # FormatVersion THEN [ok |-> FALSE]
        ELSE [ok |-> TRUE, version |-> w[1], size_ |-> w[2], swaplen |-> w[3],
              num_item_types |-> w[4], num_items |-> w[5], num_raw_data |-> w[6],
              item_size |-> w[7], data_size |-> w[8],
              size |-> w[4] * 12 + (w[5] + w[6]) * 4 + w[6] * 4 + w[7] + 36]

\* lines 168-174: the triples read before a short read raises
RECURSIVE ReadTypes(_, _, _)
ReadTypes(s, pos, n) ==
    IF n <= 0 THEN [ok |-> TRUE, list |-> <<>>]
    ELSE LET val == FRead(s, pos, 12)
         IN  IF Len(val) < 3 THEN [ok |-> FALSE, list |-> <<>>]
             ELSE LET rest == ReadTypes(s, pos + 3, n - 1)
                  IN  [ok   |-> rest.ok,
                       list |-> <<[type |-> val[1], start |-> val[2], num |-> val[3]]>>
                                \o rest.list]

\* lines 186-191: the compressed blocks; st holds the file position, last_offset
\* (bound once the loop body has run) and the blocks read so far
RECURSIVE ReadBlocks(_, _, _)
ReadBlocks(s, offsets, st) ==
    IF offsets = <<>> THEN st
    ELSE LET offset == Head(offsets)
         IN  IF offset > 0 /\ ~st.bound THEN [st EXCEPT !.ok = FALSE]
             ELSE LET got == IF offset > 0 THEN FRead(s, st.pos, offset - st.last_offset)
                             ELSE <<>>
                  IN  ReadBlocks(s, Tail(offsets),
                                 [ok |-> TRUE, bound |-> TRUE, last_offset |-> offset,
                                  pos |-> st.pos + Len(got),
                                  list |-> IF offset > 0 THEN Append(st.list, got)
                                           ELSE st.list])

\* lines 195-199: the size of every item, from the offsets
RECURSIVE Sizes(_, _)
Sizes(offsets, last_offset) ==
    IF offsets = <<>> THEN <<>>
    ELSE (IF Head(offsets) > 0 THEN <<Head(offsets) - last_offset>> ELSE <<>>)
         \o Sizes(Tail(offsets), Head(offsets))

\* sizes[j] for a Python list index j
PyIndexOk(list, j) == -Len(list) <= j /\ j < Len(list)
PyIndex(list, j) == IF j < 0 THEN list[j + Len(list) + 1] ELSE list[j + 1]

\* lines 201-208: the items, read one after the other in directory order
RECURSIVE ReadItems(_, _, _, _, _, _)
ReadItems(s, types, i, pos, sizes, acc) ==
    IF types = <<>> THEN [ok |-> TRUE, list |-> acc]
    ELSE LET item_type == Head(types)
         IN  IF i >= item_type.num THEN ReadItems(s, Tail(types), 0, pos, sizes, acc)
             ELSE IF ~PyIndexOk(sizes, item_type.start + i)
                     \/ ~PyIndexOk(ITEM_TYPES, item_type.type)
                  THEN [ok |-> FALSE, list |-> acc]
             ELSE LET size == PyIndex(sizes, item_type.start + i)
                      info == FRead(s, pos, size)
                  IN  ReadItems(s, types, i + 1, pos + Len(info), sizes,
                                Append(acc, [type |-> PyIndex(ITEM_TYPES, item_type.type),
                                             info |-> info]))

(***************************************************************************)
(* items.py: the constructors load calls on a decoded item.  Each unpacks  *)
(* a fixed number of fields, and a layer or an embedded image decompresses *)
(* the block its data index names.                                         *)
(***************************************************************************)
BlockOk(data, j) == PyIndexOk(data, j) /\ CanDecompress(PyIndex(data, j))
Decompress(data, j) == Tail(PyIndex(data, j))

ItemOk(item, data) ==
    LET info == item.info
    IN  CASE item.type = "version"  -> Len(info) * 4 = VersionSize
          [] item.type = "image"    -> /\ Len(info) * 4 = ImageSize
                                       /\ info[6] = 1 \/ BlockOk(data, info[8])
          [] item.type = "envelope" -> Len(info) * 4 = EnvelopeSize
          [] item.type = "group"    -> Len(info) * 4 = GroupSize
          [] OTHER                  -> TRUE

FromItem(item, data) ==
    LET info == item.info
    IN  CASE item.type = "image" ->
               [external |-> info[6],
                data |-> IF info[6] = 1 THEN <<>> ELSE Decompress(data, info[8])]
          [] item.type = "envelope" -> [start |-> info[5], num |-> info[6]]
          [] item.type = "group" ->
               [start_layer |-> info[8], num_layers |-> info[9], layers |-> <<>>]
          [] OTHER -> item

LayerOk(item, data) ==
    LET info == item.info
    IN  /\ Len(info) >= 4
        /\ PyIndexOk(LAYER_TYPES, info[4])
        /\ CASE PyIndex(LAYER_TYPES, info[4]) = "tile" ->
                  Len(info) * 4 = TileLayerSize /\ BlockOk(data, info[15])
             [] PyIndex(LAYER_TYPES, info[4]) = "quad" ->
                  Len(info) * 4 = QuadLayerSize /\ BlockOk(data, info[8])
             [] OTHER -> FALSE

LayerFromItem(item, data) ==
    LET info == item.info
    IN  IF PyIndex(LAYER_TYPES, info[4]) = "tile"
        THEN [type |-> info[4], game |-> info[9], data |-> Decompress(data, info[15])]
        ELSE [type |-> info[4], game |-> 0, data |-> Decompress(data, info[8])]

(***************************************************************************)
(* Teemap.load, the assembly (lines 210-241).                              *)
(***************************************************************************)
\* lines 216-219: the objects of one kind, in item order
RECURSIVE Build(_, _, _)
Build(type_, itemlist, data) ==
    IF itemlist = <<>> THEN [ok |-> TRUE, list |-> <<>>]
    ELSE LET item == Head(itemlist)
             rest == Build(type_, Tail(itemlist), data)
         IN  IF item.type # type_ THEN rest
             ELSE IF ~ItemOk(item, data) THEN [ok |-> FALSE, list |-> <<>>]
             ELSE [ok |-> rest.ok, list |-> <<FromItem(item, data)>> \o rest.list]

SplitEnvpointsNoPrefix(info) ==
    [i \in 1..Max((Len(info) - 2) \div 6, 0) |->
        Envpoint(WideSeq(SubSeq(info, (i - 1) * 6 + 1, (i - 1) * 6 + 6)))]

\* lines 227-229: the envpoints of the envpoint item, its first two words skipped
SplitEnvpoints(info) ==
    [i \in 1..Max((Len(info) - 2) \div 6, 0) |->
        Envpoint(WideSeq(SubSeq(info, 2 + (i - 1) * 6 + 1, 2 + (i - 1) * 6 + 6)))]

\* lines 222-235: envpoints and layers, in item order, up to the first
\* layer that cannot be built
RECURSIVE Scan(_, _, _)
Scan(itemlist, data, acc) ==
    IF itemlist = <<>> THEN acc
    ELSE LET item == Head(itemlist)
         IN  IF item.type = "envpoint"
             THEN Scan(Tail(itemlist), data,
                       [acc EXCEPT !.envpoints = @ \o SplitEnvpoints(item.info)])
             ELSE IF item.type = "layer"
             THEN IF LayerOk(item, data)
                  THEN Scan(Tail(itemlist), data,
                            [acc EXCEPT !.layers = Append(@, LayerFromItem(item, data))])
                  ELSE [acc EXCEPT !.ok = FALSE]
             ELSE Scan(Tail(itemlist), data, acc)

\* lines 237-241: every group takes its slice of the layers
Assign(grps, ls) ==
    [g \in 1..Len(grps) |->
        [grps[g] EXCEPT !.layers = PySlice(ls, grps[g].start_layer,
                                           grps[g].start_layer + grps[g].num_layers)]]

\* lines 237-241, and 222-235 before them: st is the teemap as the steps
\* before left it
LoadLayers(st, grps, scan) ==
    IF ~scan.ok THEN [st EXCEPT !.envpoints = scan.envpoints]
    ELSE [st EXCEPT !.ok = TRUE, !.envpoints = scan.envpoints,
                    !.groups = Assign(grps, scan.layers)]

\* lines 216-219 for the groups
LoadGroups(st, data, itemlist, grps) ==
    IF ~grps.ok THEN st
    ELSE LoadLayers([st EXCEPT !.groups = grps.list], grps.list,
                    Scan(itemlist, data, [ok |-> TRUE, envpoints |-> <<>>, layers |-> <<>>]))

\* lines 216-219 for the envelopes
LoadEnvelopes(st, data, itemlist, envs) ==
    IF ~envs.ok THEN st
    ELSE LoadGroups([st EXCEPT !.envelopes = envs.list], data, itemlist,
                    Build("group", itemlist, data))

\* lines 216-219 for the versions, the infos and the images
LoadImages(st, data, itemlist, vers, infos, imgs) ==
    IF ~vers.ok \/ ~infos.ok \/ ~imgs.ok THEN st
    ELSE LoadEnvelopes([st EXCEPT !.images = imgs.list], data, itemlist,
                       Build("envelope", itemlist, data))

\* lines 210-219
LoadItems(st, data, items) ==
    IF ~items.ok THEN st
    ELSE LoadImages(st, data, items.list, Build("version", items.list, data),
                    Build("info", items.list, data), Build("image", items.list, data))

\* lines 193-208
LoadBlocks(s, st, h, types, item_offsets, blocks) ==
    IF ~blocks.ok THEN st
    ELSE LoadItems(st, blocks.list,
                   ReadItems(s, types, 0, (h.size - h.item_size) \div 4,
                             Sizes(Append(item_offsets, h.item_size), blocks.last_offset),
                             <<>>))

\* lines 175-191
LoadOffsets(s, st, h, types, item_offsets, data_offsets) ==
    IF h.num_items < 0 \/ h.num_raw_data < 0
       \/ Len(item_offsets) < h.num_items \/ Len(data_offsets) < h.num_raw_data
    THEN st
    ELSE LoadBlocks(s, st, h, types, item_offsets,
                    ReadBlocks(s, Append(data_offsets, h.data_size),
                               [ok |-> TRUE, bound |-> FALSE, last_offset |-> 0,
                                pos |-> h.size \div 4, list |-> <<>>]))

\* lines 167-178
LoadTypes(s, st, h, T, types) ==
    IF ~types.ok THEN [st EXCEPT !.item_types = types.list]
    ELSE LoadOffsets(s, [st EXCEPT !.item_types = types.list], h, types.list,
                     FRead(s, 9 + 3 * T, h.num_items * 4),
                     FRead(s, 9 + 3 * T + h.num_items, h.num_raw_data * 4))

\* line 166
LoadHeader(s, cur, h) ==
    IF ~h.ok THEN [cur EXCEPT !.ok = FALSE]
    ELSE LoadTypes(s, [cur EXCEPT !.ok = FALSE,
                                  !.header = [f \in DOMAIN h \ {"ok"} |-> h[f]]],
                   h, Max(h.num_item_types, 0),
                   ReadTypes(s, 9, Max(h.num_item_types, 0)))

\* load of the stream s into the teemap cur (lines 165-241): the teemap it
\* leaves, and whether it returned (ok) or raised
LoadResult(s, cur) == LoadHeader(s, cur, HeaderInit(s))

(***************************************************************************)
(* The state machine.  pc is "edit" while the map is being built or        *)
(* changed, "saved" after save, "loaded" after a load that returned,       *)
(* "load_failed" / "save_failed" after one that raised, and "int32" in the *)
(* specification of int32.  file is what the last save wrote; input says   *)
(* what the last load was given: that "file", the file "truncated", or a   *)
(* "foreign" file.                                                         *)
(***************************************************************************)
NoInput == "none"
NotCalled == [raises |-> "not called", value |-> FromInt(0)]

\* the envpoints a caller appends: in the signed 32-bit range (its two ends
\* included), and beyond it in the unsigned range
EnvpointInfos ==
    { <<x7FFFFFFF, FromInt(1), WNeg(x80000000), FromInt(-1), FromInt(2), FromInt(3)>>,
      <<x80000000, FromInt(2), xFFFFFFFF, FromInt(0), FromInt(1), FromInt(0)>> }

\* the layers a caller appends
NewLayers == {QuadLayer, TileLayer(0)}

\* the values a foreign file may hold in a group's start_layer and num_layers
ForeignRange == -1..2

Total ==
    Len(groups) + Len(layers(groups)) + Len(images) + Len(envelopes) + Len(envpoints)

RemoveAt(seq, i) == SubSeq(seq, 1, i - 1) \o SubSeq(seq, i + 1, Len(seq))

\* Teemap() (lines 119-131) and create_default (lines 381-398)
Init ==
    /\ groups = << [Group EXCEPT !.layers = <<QuadLayer>>],
                   [Group EXCEPT !.layers = <<TileLayer(1)>>] >>
    /\ images = <<>>
    /\ envelopes = <<>>
    /\ envpoints = <<>>
    /\ header = NewHeader
    /\ item_types = <<>>
    /\ file = NoFile
    /\ pc = "edit"
    /\ input = NoInput
    /\ x = FromInt(0)
    /\ r = NotCalled

CanEdit == pc \in {"edit", "saved"}
Edited ==
    /\ pc' = "edit"
    /\ file' = NoFile
    /\ input' = NoInput
    /\ UNCHANGED <<header, item_types, x, r>>

AddGroup ==
    /\ CanEdit /\ Total < MaxItems
    /\ groups' = Append(groups, Group)
    /\ UNCHANGED <<images, envelopes, envpoints>>
    /\ Edited

RemoveGroup ==
    /\ CanEdit
    /\ \E g \in 1..Len(groups) : groups' = RemoveAt(groups, g)
    /\ UNCHANGED <<images, envelopes, envpoints>>
    /\ Edited

AddLayer ==
    /\ CanEdit /\ Total < MaxItems
    /\ \E g \in 1..Len(groups), layer \in NewLayers :
          groups' = [groups EXCEPT ![g].layers = Append(@, layer)]
    /\ UNCHANGED <<images, envelopes, envpoints>>
    /\ Edited

RemoveLayer ==
    /\ CanEdit
    /\ \E g \in 1..Len(groups) : \E i \in 1..Len(groups[g].layers) :
          groups' = [groups EXCEPT ![g].layers = RemoveAt(@, i)]
    /\ UNCHANGED <<images, envelopes, envpoints>>
    /\ Edited

AddImage ==
    /\ CanEdit /\ Total < MaxItems
    /\ \E external \in {0, 1} : images' = Append(images, Image(external))
    /\ UNCHANGED <<groups, envelopes, envpoints>>
    /\ Edited

AddEnvelope ==
    /\ CanEdit /\ Total < MaxItems
    /\ \E start \in 0..Len(envpoints) : \E num \in 0..(Len(envpoints) - start) :
          envelopes' = Append(envelopes, Envelope(start, num))
    /\ UNCHANGED <<groups, images, envpoints>>
    /\ Edited

AddEnvpoint ==
    /\ CanEdit /\ Total < MaxItems
    /\ \E info \in EnvpointInfos : envpoints' = Append(envpoints, Envpoint(info))
    /\ UNCHANGED <<groups, images, envelopes>>
    /\ Edited

\* Teemap.save (lines 246-379)
Save ==
    /\ pc = "edit"
    /\ groups' = StartLayers(groups, 0)
    /\ \E f \in {SavedFile(groups, images, envelopes, envpoints)} :
          /\ file' = f
          /\ pc' = IF f.complete THEN "saved" ELSE "save_failed"
    /\ input' = NoInput
    /\ UNCHANGED <<images, envelopes, envpoints, header, item_types, x, r>>

\* Teemap.load (lines 156-244) of the stream s
LoadFrom(s, inp) ==
    \E res \in {LoadResult(s, [ok |-> TRUE, groups |-> groups, images |-> images,
                               envelopes |-> envelopes, envpoints |-> envpoints,
                               header |-> header, item_types |-> item_types])} :
        /\ groups' = res.groups
        /\ images' = res.images
        /\ envelopes' = res.envelopes
        /\ envpoints' = res.envpoints
        /\ header' = res.header
        /\ item_types' = res.item_types
        /\ pc' = IF res.ok THEN "loaded" ELSE "load_failed"
        /\ input' = inp
        /\ UNCHANGED <<file, x, r>>

\* load of the file save wrote
Load ==
    /\ pc = "saved"
    /\ LoadFrom(Stream(file), "file")

\* load of a file that ends early
LoadTruncated ==
    /\ pc = "saved"
    /\ \E s \in {Stream(file)} : \E cut \in 0..(Len(s) - 1) :
          LoadFrom(SubSeq(s, 1, cut), "truncated")

\* the place of the g-th group item in the stream, counted from 0
GroupItemPos(f, g) ==
    LET e == CHOOSE t \in 1..Len(f.types) : f.types[t].type = TypeIndex("group")
    IN  Len(f.hdr) + 3 * Len(f.types) + Len(f.item_offsets) + Len(f.data_offsets)
        + Len(f.data_sizes) + (f.item_offsets[f.types[e].start + g] \div 4)

\* load of a file whose g-th group names another layer range
LoadForeign ==
    /\ pc = "saved"
    /\ \E g \in 1..Len(groups), start \in ForeignRange, num \in ForeignRange :
          LET pos == GroupItemPos(file, g)
          IN  LoadFrom([Stream(file) EXCEPT ![pos + 8] = start, ![pos + 9] = num],
                       "foreign")

Next ==
    \/ AddGroup \/ RemoveGroup \/ AddLayer \/ RemoveLayer
    \/ AddImage \/ AddEnvelope \/ AddEnvpoint
    \/ Save \/ Load

Spec == Init /\ [][Next]_vars

\* the same, with loads of files that save did not write as they are
NextAnyFile == Next \/ LoadTruncated \/ LoadForeign

SpecAnyFile == Init /\ [][NextAnyFile]_vars

(***************************************************************************)
(* int32 on its own: the inputs lie around 0, 2^31 and 2^32.               *)
(***************************************************************************)
Int32Inputs ==
    { WAdd(base, FromInt(d)) : base \in {FromInt(0), x80000000, x100000000},
                               d \in (-Around)..Around }

InitInt32 ==
    /\ groups = <<>> /\ images = <<>> /\ envelopes = <<>> /\ envpoints = <<>>
    /\ header = NewHeader /\ item_types = <<>> /\ file = NoFile
    /\ pc = "int32" /\ input = NoInput
    /\ x \in Int32Inputs
    /\ r = NotCalled

CallInt32 ==
    /\ pc = "int32" /\ r = NotCalled
    /\ r' = int32(x)
    /\ UNCHANGED <<groups, images, envelopes, envpoints, header, item_types,
                   file, pc, input, x>>

SpecInt32 == InitInt32 /\ [][CallInt32]_vars

(***************************************************************************)
(* Properties.                                                             *)
(***************************************************************************)
\* the header save wrote, by field name
WrittenHeader ==
    [version |-> file.hdr[2], size |-> file.hdr[3], swap_length |-> file.hdr[4],
     item_type_count |-> file.hdr[5], item_count |-> file.hdr[6],
     raw_data_count |-> file.hdr[7], item_blob_size |-> file.hdr[8],
     data_size |-> file.hdr[9]]

\* the size of everything before the compressed blocks, from the written fields
WholeHeader(h) ==
    36 + 12 * h.item_type_count + 4 * (h.item_count + 2 * h.raw_data_count)
    + h.item_blob_size

OptionalKinds == {"image", "envelope", "group", "layer"}

Populated(kind) ==
    CASE kind = "image"    -> images # <<>>
      [] kind = "envelope" -> envelopes # <<>>
      [] kind = "group"    -> groups # <<>>
      [] kind = "layer"    -> \E g \in 1..Len(groups) : groups[g].layers # <<>>

\* C1: the header fields save writes satisfy
\*   size = 36 + 12*item_type_count + 4*(item_count + 2*raw_data_count)
\*          + item_blob_size + data_size - 16
\*   swap_length = size - data_size
\* and Header.__init__ on the written file accepts it, reads the same fields
\* and computes the whole-header size 36 + 12*item_type_count
\* + 4*(item_count + 2*raw_data_count) + item_blob_size.
C1_HeaderArithmetic ==
    file # NoFile =>
        \E h \in {WrittenHeader} : \E back \in {HeaderInit(Stream(file))} :
            /\ h.size = WholeHeader(h) + h.data_size - 16
            /\ h.swap_length = h.size - h.data_size
            /\ back.ok
            /\ back.size = WholeHeader(h)
            /\ back.size_ = h.size /\ back.swaplen = h.swap_length
            /\ back.num_item_types = h.item_type_count
            /\ back.num_items = h.item_count
            /\ back.num_raw_data = h.raw_data_count
            /\ back.item_size = h.item_blob_size
            /\ back.data_size = h.data_size

\* a saved map with embedded raw data of every source and with envpoints
C1_Witness ==
    /\ pc = "saved"
    /\ Len(file.blocks) >= 2
    /\ Len(images) >= 1
    /\ Len(envpoints) >= 1
    /\ WrittenHeader.data_size > 0

\* C2: in a saved file the header's item_type_count is the number of
\* directory triples written: version and envpoint, plus one for each of
\* image, envelope, group, layer that is populated; item_count is
\* groups + layers + images + envelopes + 2 and the number of item offsets
\* written; raw_data_count is the number of raw-data offsets and of
\* compressed blocks written.  For a map of 2 groups, 2 layers and no
\* image or envelope, item_type_count = 4 and item_count = 6.
C2_HeaderCounts ==
    pc = "saved" =>
        \E h \in {WrittenHeader} :
            /\ h.item_type_count = Len(file.types)
            /\ h.item_type_count = 2 + Cardinality({k \in OptionalKinds : Populated(k)})
            /\ {file.types[t].type : t \in 1..Len(file.types)}
                 = {TypeIndex("version"), TypeIndex("envpoint")}
                   \cup {TypeIndex(k) : k \in {k \in OptionalKinds : Populated(k)}}
            /\ h.item_count = Len(groups) + Len(layers(groups)) + Len(images)
                              + Len(envelopes) + 2
            /\ h.item_count = Len(file.item_offsets)
            /\ h.raw_data_count = Len(file.data_offsets)
            /\ h.raw_data_count = Len(file.blocks)
            /\ h.raw_data_count = Len(file.data_sizes)
            /\ (Len(groups) = 2 /\ Len(layers(groups)) = 2
                /\ images = <<>> /\ envelopes = <<>>)
               => (h.item_type_count = 4 /\ h.item_count = 6)

\* the default map, saved
C2_Witness ==
    /\ pc = "saved"
    /\ Len(groups) = 2 /\ Len(layers(groups)) = 2
    /\ images = <<>> /\ envelopes = <<>>
    /\ WrittenHeader.item_type_count = 4

\* the item indexes of the t-th run of a directory
Run(types, t) == types[t].start .. (types[t].start + types[t].num - 1)

\* the runs of a directory are disjoint, start in non-decreasing order, cover
\* [0, item_count) and name no kind that is empty
Covers(types, item_count) ==
    /\ \A a, b \in 1..Len(types) : a # b => Run(types, a) \cap Run(types, b) = {}
    /\ \A a, b \in 1..Len(types) : a < b => types[a].start <= types[b].start
    /\ UNION {Run(types, t) : t \in 1..Len(types)} = 0..(item_count - 1)
    /\ \A k \in OptionalKinds :
          ~Populated(k) => \A t \in 1..Len(types) : types[t].type # TypeIndex(k)

\* C3: the directory save writes, and the directory a load of that file
\* reads, consist of runs that are pairwise disjoint, have non-decreasing
\* start indexes in file order, and whose union is [0, item_count) for the
\* header's item_count; an empty kind among image, envelope, group, layer has
\* no entry.
C3_DirectoryCoverage ==
    /\ pc = "saved" => Covers(file.types, WrittenHeader.item_count)
    /\ (pc = "loaded" /\ input = "file") =>
          /\ item_types = file.types
          /\ header.num_items = WrittenHeader.item_count
          /\ Covers(item_types, header.num_items)

\* a loaded file whose directory has a run of several items and lacks a kind
C3_Witness ==
    /\ pc = "loaded" /\ input = "file"
    /\ \E t \in 1..Len(item_types) : item_types[t].num >= 2
    /\ Len(item_types) = 5

\* the number of layers of the groups before the i-th
LayersBefore(grps, i) == Len(layers(SubSeq(grps, 1, i - 1)))

SaveStep == pc = "edit" /\ pc' = "saved"
LoadStep == pc = "saved" /\ pc' = "loaded" /\ input' = "file"

\* C4: save gives every group the start_layer that is the number of layers
\* of the groups before it, whatever it held, and leaves the layers alone;
\* a load of the file then gives the i-th group the same layers in the same
\* order, and the flat layers view is their concatenation in group order.
C4_GroupLayerSlicing ==
    [][ /\ SaveStep =>
            /\ Len(groups') = Len(groups)
            /\ \A i \in 1..Len(groups) :
                  /\ groups'[i].start_layer = LayersBefore(groups, i)
                  /\ groups'[i].layers = groups[i].layers
        /\ LoadStep =>
            /\ Len(groups') = Len(groups)
            /\ \A i \in 1..Len(groups) :
                  /\ groups'[i].layers = groups[i].layers
                  /\ groups'[i].start_layer = LayersBefore(groups, i)
                  /\ groups'[i].num_layers = Len(groups[i].layers)
            /\ layers(groups') = layers(groups)
            /\ Len(layers(groups')) = LayersBefore(groups, Len(groups) + 1)
      ]_vars

\* a reloaded map whose second group starts after two layers of the first
C4_Witness ==
    /\ pc = "loaded" /\ input = "file"
    /\ Len(groups) >= 2
    /\ Len(groups[1].layers) = 2
    /\ Len(groups[2].layers) >= 1
    /\ groups[2].start_layer = 2
    /\ groups[1].layers[1] # groups[1].layers[2]

\* the six fields of an envpoint, in the order save writes them
Fields(p) == <<p.time, p.curvetype>> \o p.values

\* a field of the signed 32-bit range
Signed32(v) == ~WLt(v, WNeg(x80000000)) /\ ~WGt(v, x7FFFFFFF)

\* the envpoints an envelope's range names (a Python slice)
Resolve(e, pts) == PySlice(pts, e.start, e.start + e.num)

\* the words of the envpoint item in the written file: the last 2 + 6n words
\* of the item section
WrittenEnvpointItem ==
    SubSeq(file.items, Len(file.items) - (2 + 6 * Len(envpoints)) + 1, Len(file.items))

\* C5 as stated: save writes one envpoint item, a prefix of two integers
\* and the n records in order, and a load of the file rebuilds n envpoints,
\* the k-th equal field for field to the k-th before the save, so that
\* every envelope's range resolves to the same records.
C5_EnvpointsRoundTrip ==
    [][ LoadStep =>
            /\ Len(envpoints') = Len(envpoints)
            /\ \A k \in 1..Len(envpoints) : envpoints'[k] = envpoints[k]
            /\ envelopes' = envelopes
            /\ \A e \in 1..Len(envelopes) :
                  Resolve(envelopes'[e], envpoints') = Resolve(envelopes[e], envpoints)
      ]_vars

\* C5, amended: save writes one envpoint item, a prefix of two integers and
\* the n records in order, every field f written as int32(f); a load of the
\* file rebuilds n envpoints whose k-th has the fields int32(f) of the k-th
\* before the save: equal to it when all its fields lie in the signed 32-bit
\* range, f - 2^32 for a field in [2^31, 2^32 - 1].  The envelopes come back
\* unchanged, and a range all of whose envpoints lie in the signed range
\* resolves to the same records.
C5_EnvpointsRoundTripSigned ==
    [][ /\ SaveStep =>
            /\ Cardinality({t \in 1..Len(file'.types) :
                              file'.types[t].type = TypeIndex("envpoint")}) = 1
            /\ \A t \in 1..Len(file'.types) :
                  file'.types[t].type = TypeIndex("envpoint") => file'.types[t].num = 1
            /\ WrittenEnvpointItem'
                 = <<TypeIndex("envpoint") * 65536, 24 * Len(envpoints)>>
                   \o [j \in 1..(6 * Len(envpoints)) |->
                         Pack(int32(Fields(envpoints[((j - 1) \div 6) + 1])
                                      [((j - 1) % 6) + 1]).value)]
        /\ LoadStep =>
            /\ Len(envpoints') = Len(envpoints)
            /\ \A k \in 1..Len(envpoints) : \A j \in 1..6 :
                  /\ Fields(envpoints'[k])[j] = int32(Fields(envpoints[k])[j]).value
                  /\ Signed32(Fields(envpoints[k])[j])
                       => Fields(envpoints'[k])[j] = Fields(envpoints[k])[j]
                  /\ ~Signed32(Fields(envpoints[k])[j])
                       => Fields(envpoints'[k])[j]
                            = WSub(Fields(envpoints[k])[j], x100000000)
            /\ envelopes' = envelopes
            /\ \A e \in 1..Len(envelopes) :
                  (\A p \in 1..Len(Resolve(envelopes[e], envpoints)) : \A j \in 1..6 :
                       Signed32(Fields(Resolve(envelopes[e], envpoints)[p])[j]))
                  => Resolve(envelopes'[e], envpoints') = Resolve(envelopes[e], envpoints)
      ]_vars

\* a reloaded map with an envelope over two envpoints, one of them with
\* fields beyond the signed range
C5_Witness ==
    /\ pc = "loaded" /\ input = "file"
    /\ Len(envpoints) >= 2
    /\ \E e \in 1..Len(envelopes) : envelopes[e].num >= 1
    /\ \E k \in 1..Len(envpoints) : envpoints[k].time = WNeg(x80000000)
    /\ \E k \in 1..Len(envpoints) : envpoints[k].time = x7FFFFFFF

\* C6: int32(x) = x for 0 <= x <= 0x7FFFFFFF, x - 2^32 for
\* 0x80000000 <= x <= 0xFFFFFFFF (so -1 for 0xFFFFFFFF and -2147483648 for
\* 0x80000000), and it raises OverflowError for x > 0xFFFFFFFF.
C6_Int32Wraparound ==
    r # NotCalled =>
        /\ (~WLt(x, FromInt(0)) /\ ~WGt(x, x7FFFFFFF)) => r = Returns(x)
        /\ (~WLt(x, x80000000) /\ ~WGt(x, xFFFFFFFF))
              => r = Returns(WSub(x, x100000000))
        /\ x = xFFFFFFFF => r = Returns(FromInt(-1))
        /\ x = x80000000 => r = Returns([hi |-> -32768, lo |-> 0])
        /\ WGt(x, xFFFFFFFF) => r.raises = "OverflowError"

\* int32 was called on 0x80000000
C6_Witness ==
    /\ pc = "int32"
    /\ x = x80000000
    /\ r = Returns(WNeg(x80000000))

\* C7: a load of a strict prefix of a saved file never returns.
C7_TruncatedRejected ==
    input = "truncated" => pc # "loaded"

\* the number of layer items a load decoded, from the directory it read
DecodedLayers ==
    Cardinality(UNION {{<<t, i>> : i \in 1..item_types[t].num} :
                         t \in {t \in 1..Len(item_types) :
                                  item_types[t].type = TypeIndex("layer")}})

\* C8: a load that returns leaves no group whose range
\* [start_layer, start_layer + num_layers) has an element outside
\* [0, number of layers decoded).
C8_RangeChecked ==
    pc = "loaded" =>
        \A g \in 1..Len(groups) :
            groups[g].num_layers > 0 =>
                /\ 0 <= groups[g].start_layer
                /\ groups[g].start_layer + groups[g].num_layers <= DecodedLayers

\* C9: a load that raises leaves groups, images, envelopes, envpoints and
\* header as they were.
C9_NoPartialState ==
    [][ pc' = "load_failed" =>
            UNCHANGED <<groups, images, envelopes, envpoints, header>> ]_vars

\* the sizes load derives from the written item offsets (lines 195-199);
\* last_offset comes in as the data loop left it
DerivedSizes ==
    Sizes(Append(file.item_offsets, WrittenHeader.item_blob_size),
          WrittenHeader.data_size)

\* the bytes save wrote for every item, in item order: id word, size word
\* and payload
WrittenItemBytes ==
    <<4 * 3>>
    \o [i \in 1..Len(images) |-> 4 * (1 + Len(ImageItemdata(images[i], 0)))]
    \o [i \in 1..Len(envelopes) |->
          4 * (1 + Len(EnvelopeItemdata(envelopes[i])) + Len(EnvelopeName))]
    \o [i \in 1..Len(groups) |-> 4 * (1 + Len(GroupItemdata(groups[i])))]
    \o [i \in 1..Len(layers(groups)) |->
          4 * (1 + Len(LayerItemdata(layers(groups)[i], 0)))]
    \o <<4 * (2 + 6 * Len(envpoints))>>

\* C10: from the item offsets save writes, load derives item_count sizes,
\* none negative; the i-th is offsets[i+1] - offsets[i], with item_blob_size
\* after the last offset, and is the number of bytes save wrote for the
\* i-th item, the envpoint item included; every item starts at its offset
\* with its id word, followed by its size word.
C10_OffsetsAndSizes ==
    pc = "saved" =>
        \E sizes \in {DerivedSizes} :
        \E offsets \in {Append(file.item_offsets, WrittenHeader.item_blob_size)} :
            /\ Len(sizes) = WrittenHeader.item_count
            /\ \A i \in 1..Len(sizes) :
                  /\ sizes[i] >= 0
                  /\ sizes[i] = offsets[i + 1] - offsets[i]
                  /\ sizes[i] = WrittenItemBytes[i]
                  /\ file.items[(offsets[i] \div 4) + 2] = sizes[i] - 8
            /\ 4 * Len(file.items) = WrittenHeader.item_blob_size
            /\ \A t \in 1..Len(file.types) : \A i \in 0..(file.types[t].num - 1) :
                  file.items[(offsets[file.types[t].start + i + 1] \div 4) + 1]
                    = PackId(file.types[t].type, i)

\* a saved map with envpoints and with layers of both kinds
C10_Witness ==
    /\ pc = "saved"
    /\ Len(envpoints) >= 2
    /\ \E g \in 1..Len(groups) : \E i \in 1..Len(groups[g].layers) :
          IsTile(groups[g].layers[i])
    /\ \E g \in 1..Len(groups) : \E i \in 1..Len(groups[g].layers) :
          ~IsTile(groups[g].layers[i])
    /\ DerivedSizes[Len(DerivedSizes)] = 8 + 24 * Len(envpoints)

====
